---- MODULE Spec2Model ----
(***************************************************************************)
(* A model of kubejob (job.go): Job.Run / Job.RunWithExecutionHandler, the *)
(* pod watch loop, the container log streaming tasks, JobExecutor.Exec and *)
(* FailedJob.FailedContainers, together with the part of the orchestrator  *)
(* they talk to (one pod, its containers, its watch stream and its log     *)
(* streams).                                                               *)
(***************************************************************************)
EXTENDS Integers, Sequences, FiniteSets, TLC

(* ------------------------------ bounds --------------------------------- *)
\* number of init containers of the pod template
NumInit == 1
\* number of regular containers of the pod template
NumContainers == 1
\* number of log lines a container writes
MaxLines == 2
\* number of pods the selector can match at cleanup
MaxPods == 1

InitCs == 1..NumInit
RegCs == (NumInit + 1)..(NumInit + NumContainers)
Cs == InitCs \cup RegCs

(* ------------------------------ errors --------------------------------- *)
\* An error value: msg is the chain of messages (outermost first) and fj the
\* FailedJob errors.As finds in the chain ({} when there is none, else the
\* singleton of its Pod).
Nil == [msg |-> <<>>, fj |-> {}]

IsNil(err) == err.msg = <<>>

\* errors.New / an error of a lower layer
Cause(m) == [msg |-> <<m>>, fj |-> {}]

\* xerrors.Errorf("<m>: %w", err)
Wrap(m, err) == [msg |-> <<m>> \o err.msg, fj |-> err.fj]

\* &FailedJob{Pod: p}; Error() is "failed to job"
FailedJobErr(p) == [msg |-> <<"failed to job">>, fj |-> {p}]

\* xerrors.Errorf(strings.Join([]string{e.Error(), err.Error()}, "\n")):
\* a new error made of the two texts; nothing is wrapped
JoinErr(e1, e2) == [msg |-> e1.msg \o <<"\n">> \o e2.msg, fj |-> {}]

\* ctx.Err() of a cancelled context
Canceled == Cause("context canceled")

(* --------------------------- pod snapshots ----------------------------- *)
\* Termination reasons of a container status; "" stands for a status whose
\* State.Terminated is nil.
Reasons == {"", "Completed", "Error"}

\* The pod phases a watch event can carry.
Phases == {"Pending", "Running", "Unknown", "Succeeded", "Failed"}

\* A *core.Pod as the program keeps it: of the object of a watch event the
\* code later reads the container statuses only (the phase is read from the
\* event at once).  pod == nil before the first event.
NoPod == [nil |-> TRUE, term |-> [c \in Cs |-> ""]]

\* the pod object of an event sent while the containers are in state t
Snapshot(t) == [nil |-> FALSE, term |-> t]

\* the i-th, ..., j-th numbers in increasing order, as a sequence
Range(i, j) == [k \in 1..(j - i + 1) |-> i + k - 1]

\* core.Pod as FailedJob reads it: Spec.InitContainers and Spec.Containers
\* (containers named by their number), Status.InitContainerStatuses and
\* Status.ContainerStatuses.  The pod of a run lists its containers, and the
\* kubelet their statuses, in increasing order of name.
PodObject(p) ==
  [initContainers |-> Range(1, NumInit),
   containers |-> Range(NumInit + 1, NumInit + NumContainers),
   initContainerStatuses |->
     [k \in 1..NumInit |-> [name |-> k, reason |-> p.term[k]]],
   containerStatuses |->
     [k \in 1..NumContainers |->
        [name |-> NumInit + k, reason |-> p.term[NumInit + k]]]]

(* ------------------------------ FailedJob ------------------------------ *)
RECURSIVE errorContainerNamesFromStatuses(_)
errorContainerNamesFromStatuses(containerStatuses) ==
  IF containerStatuses = <<>> THEN <<>>
  ELSE LET status == Head(containerStatuses)
           rest == errorContainerNamesFromStatuses(Tail(containerStatuses))
       IN IF status.reason = "" THEN rest
          ELSE IF status.reason = "Error" THEN <<status.name>> \o rest
          ELSE rest

\* FailedJob.FailedContainerNames of a FailedJob whose Pod is po
FailedContainerNames(po) ==
  errorContainerNamesFromStatuses(po.initContainerStatuses)
    \o errorContainerNamesFromStatuses(po.containerStatuses)

SeqToSet(s) == {s[i] : i \in 1..Len(s)}

\* FailedJob.FailedContainers: each name is looked up in the map built from
\* the pod spec; a name the spec does not have gives the zero Container (0).
FailedContainers(po) ==
  LET names == FailedContainerNames(po)
      known == SeqToSet(po.initContainers) \cup SeqToSet(po.containers)
  IN [i \in 1..Len(names) |-> IF names[i] \in known THEN names[i] ELSE 0]

(* ---------------------------- log settings ----------------------------- *)
NoneDisabled ==
  [containerLog |-> FALSE, commandLog |-> FALSE,
   initContainerLog |-> FALSE, initCommandLog |-> FALSE]

\* The settings a Job is run with: nothing disabled, one of
\* DisableContainerLog, DisableCommandLog, DisableInitContainerLog and
\* DisableInitCommandLog called, or all of them.
LogSettings ==
  {NoneDisabled,
   [NoneDisabled EXCEPT !.containerLog = TRUE],
   [NoneDisabled EXCEPT !.commandLog = TRUE],
   [NoneDisabled EXCEPT !.initContainerLog = TRUE],
   [NoneDisabled EXCEPT !.initCommandLog = TRUE],
   [containerLog |-> TRUE, commandLog |-> TRUE,
    initContainerLog |-> TRUE, initCommandLog |-> TRUE]}

\* Job.DisableCommandLog on the settings d of a Job
DisableCommandLog(d) == [d EXCEPT !.commandLog = TRUE]

(* ------------------------------- state --------------------------------- *)
VARIABLES
  \* the orchestrator's side
  term,          \* per container: its termination reason ("" while not terminated)
  sentinel,      \* per regular container: content of /tmp/kubejob-status, "none" without the file
  watchOpen,     \* the result channel of the watcher is not closed
  \* the Job
  jobCmd,        \* per container: the command of the job spec ("orig" or "wrapper")
  disabled,      \* disabledContainerLog, disabledCommandLog, disabledInit...
  callback,      \* podRunningCallback != nil
  executors,     \* per regular container: the JobExecutor built for it
  \* Run, wait and the deferred cleanup
  mainPc,        \* position of the caller's goroutine
  e,             \* the named result of Run
  cleanup,       \* what the deferred function has attempted so far
  ctxDone,       \* ctx.Err() != nil
  \* watchLoop
  watchPc,       \* position of the watch goroutine
  phase,         \* its local phase
  pod,           \* the pod variable shared with the log streaming goroutine
  once,          \* sync.Once has run
  watchRet,      \* what the watch goroutine returned (nil while it runs)
  egErr,         \* the first error recorded by the errgroup of watchLoop
  \* the execution handler
  handlerCalls,  \* number of invocations of podRunningCallback
  handlerRet,    \* "none", or what the handler returned ("nil", "err")
  execDone,      \* per regular container: whether Exec() was called, and its error
  cancelInHandler, \* ctx was cancelled while the handler was being called
  \* logStreamPod, logStreamContainer and the consumer of containerLogs
  logPodPc,      \* position of the log streaming goroutine
  logPod,        \* the pod it was called with
  lscPc,         \* per container: position of its logStreamContainer call
  innerErr,      \* the first error recorded by the errgroup of logStreamPod
  rdPc,          \* per container: position of its reader goroutine
  errchan,       \* per container: content of errchan (capacity 1)
  closed,        \* per container: stream.Close() has run
  nread,         \* per container: number of lines read from the stream
  handling,      \* the event the consumer has received and is handling, if any
  logs,          \* per container: the events the logger has handled, in order
  \* calls of the methods of JobExecutor and FailedJob taken by themselves
  call           \* the last such call: the method, its input and its result

envVars == <<term, sentinel, watchOpen>>
jobVars == <<jobCmd, disabled, callback, executors>>
runVars == <<mainPc, e, cleanup>>
watchVars == <<watchPc, phase, pod, once, watchRet, egErr>>
handlerVars == <<handlerCalls, handlerRet, execDone, cancelInHandler>>
logPodVars == <<logPodPc, logPod, lscPc, innerErr>>
readerVars == <<rdPc, errchan, closed, nread>>
sinkVars == <<handling, logs>>
logVars == <<logPodVars, readerVars, sinkVars>>
vars == <<envVars, jobVars, runVars, ctxDone, watchVars, handlerVars, logVars, call>>

NoCall == [op |-> "none", input |-> <<>>, result |-> <<>>]

Init ==
  /\ term = [c \in Cs |-> ""]
  /\ sentinel = [c \in RegCs |-> "none"]
  /\ watchOpen = FALSE
  /\ jobCmd = [c \in Cs |-> "orig"]
  /\ disabled \in LogSettings
  /\ callback = FALSE
  /\ executors = [c \in RegCs |-> [command |-> "none", pod |-> NoPod]]
  /\ mainPc = "start"
  /\ e = Nil
  /\ cleanup = <<>>
  /\ ctxDone = FALSE
  /\ watchPc = "idle"
  /\ phase = ""
  /\ pod = NoPod
  /\ once = FALSE
  /\ watchRet = Nil
  /\ egErr = Nil
  /\ handlerCalls = 0
  /\ handlerRet = "none"
  /\ execDone = [c \in RegCs |-> [called |-> FALSE, err |-> Nil]]
  /\ cancelInHandler = FALSE
  /\ logPodPc = "none"
  /\ logPod = NoPod
  /\ lscPc = [c \in Cs |-> "idle"]
  /\ innerErr = Nil
  /\ rdPc = [c \in Cs |-> "idle"]
  /\ errchan = [c \in Cs |-> "empty"]
  /\ closed = [c \in Cs |-> FALSE]
  /\ nread = [c \in Cs |-> 0]
  /\ handling = <<>>
  /\ logs = [c \in Cs |-> <<>>]
  /\ call = NoCall

(* --------------------------- the orchestrator -------------------------- *)
\* every init container has completed
InitDone == \A i \in InitCs : term[i] = "Completed"

\* container c has been started and has not terminated: init containers run
\* one after the other, regular containers once every init container completed
IsRunning(c) ==
  /\ term[c] = ""
  /\ IF c \in InitCs THEN \A i \in InitCs : i < c => term[i] = "Completed"
     ELSE InitDone

\* container c has been started (its log can be requested)
Started(c) == term[c] # "" \/ IsRunning(c)

\* the phase of the pod (restart policy Never)
PodPhase ==
  IF \E i \in InitCs : term[i] = "Error" THEN "Failed"
  ELSE IF ~InitDone THEN "Pending"
  ELSE IF \E c \in RegCs : term[c] = "" THEN "Running"
  ELSE IF \A c \in RegCs : term[c] = "Completed" THEN "Succeeded"
  ELSE "Failed"

\* the pod exists: the job has been created and its pods not yet deleted
PodExists == mainPc \in {"watch", "egWait", "cleanup"}

\* the exit of the polling wrapper: exit $(cat /tmp/kubejob-status)
WrapperExitMutant(c, r) == TRUE

WrapperExit(c, r) ==
  /\ sentinel[c] # "none"
  /\ r = IF sentinel[c] = "0" THEN "Completed" ELSE "Error"

\* Container c terminates with reason r.  A container that runs the wrapper
\* (jobCommandTemplate) loops until the sentinel file exists and exits with
\* its content; any other container ends by itself.
ContainerExit(c, r) ==
  /\ PodExists
  /\ IsRunning(c)
  /\ jobCmd[c] = "wrapper" => WrapperExit(c, r)
  /\ term' = [term EXCEPT ![c] = r]
  /\ UNCHANGED <<sentinel, watchOpen>>
  /\ UNCHANGED <<jobVars, runVars, ctxDone, watchVars, handlerVars, logVars>>
  /\ UNCHANGED call

\* The lines container c writes to its log before it ends (the wrapper
\* writes nothing).
Lines(c) == IF jobCmd[c] = "orig" THEN MaxLines ELSE 0

\* The watch event the orchestrator can send at this moment: the current pod
\* in its phase ph.  A running pod whose node is unreachable is reported in
\* phase Unknown.
CanSend(ph) ==
  /\ PodExists
  /\ watchOpen
  /\ IF ph = "Unknown" THEN PodPhase = "Running" ELSE ph = PodPhase

\* ctx is cancelled: by the caller at any moment before Run returns, or by
\* the handler while it is being called.
Cancel ==
  /\ ~ctxDone
  /\ mainPc \in {"start", "create", "watch", "egWait"}
  /\ ctxDone' = TRUE
  /\ cancelInHandler' = (watchPc = "callback")
  /\ UNCHANGED <<handlerCalls, handlerRet, execDone>>
  /\ UNCHANGED <<envVars, jobVars, runVars, watchVars, logVars>>
  /\ UNCHANGED call

(* ----------------------------- JobExecutor ----------------------------- *)
\* The outputs a command can write to stdout and stderr.
Outputs == {<<>>, <<"k", "\n">>, <<"No such file", "\n">>}

\* What the exec subresource answers to one call: ok is FALSE when the
\* stream ends in an error (the command exited non-zero, or the transport
\* failed); output is what the command wrote.
Responses == [ok : BOOLEAN, output : Outputs]

\* JobExecutor.exec: buf := newBuffer(); the stream is given os.Stdout and
\* os.Stderr, so nothing is ever written to buf; returns buf.Bytes()
exec(resp) ==
  [out |-> <<>>,
   err |-> IF resp.ok THEN Nil
           ELSE Wrap("faield to exec command", Cause("stream"))]

\* a status that is written as 0 whatever its value
SprintMutant(status) == "0"

\* fmt.Sprint(status)
Sprint(status) == IF status = 0 THEN "0" ELSE "1"

\* a version of Exec that returns the error of the write of the sentinel
\* file when the command itself succeeded
ExecMutant(ex, resp, hs) ==
  LET r == exec(resp)
      status == IF IsNil(r.err) THEN 0 ELSE 1
      errTest == IF ~IsNil(r.err) THEN FailedJobErr(ex.pod)
                 ELSE IF hs.ok THEN Nil
                 ELSE Wrap("failed to send test status", Cause("stream"))
  IN [out |-> r.out,
      err |-> errTest,
      status |-> status,
      second |-> <<"echo", Sprint(status), ">", "/tmp/kubejob-status">>]

\* JobExecutor.Exec on executor ex, the orchestrator answering resp to the
\* command and hs to the write of the sentinel file: the bytes and the error
\* returned, the status computed and the command of the second call.
Exec(ex, resp, hs) ==
  LET r == exec(resp)
      status == IF IsNil(r.err) THEN 0 ELSE 1
      errTest == IF IsNil(r.err) THEN Nil ELSE FailedJobErr(ex.pod)
  IN [out |-> r.out,
      err |-> errTest,
      status |-> status,
      second |-> <<"echo", Sprint(status), ">", "/tmp/kubejob-status">>]

(* ------------------- RunWithExecutionHandler and Run ------------------- *)
\* a loop that also goes over the init containers
OverwrittenByLoopMutant(c) == TRUE

\* the containers the loop of RunWithExecutionHandler goes over: those of
\* Spec.Template.Spec.Containers, the regular ones
OverwrittenByLoop(c) == c \in RegCs

\* RunWithExecutionHandler up to its call of Run: one executor per regular
\* container holding its command, the command replaced by the wrapper, the
\* command log disabled, the callback installed.
RunWithExecutionHandler(rtOk) ==
  /\ mainPc = "start"
  /\ IF rtOk
     THEN /\ executors' = [c \in RegCs |-> [command |-> jobCmd[c], pod |-> NoPod]]
          /\ jobCmd' = [c \in Cs |-> IF OverwrittenByLoop(c) THEN "wrapper" ELSE jobCmd[c]]
          /\ disabled' = DisableCommandLog(disabled)
          /\ callback' = TRUE
          /\ mainPc' = "create"
          /\ e' = e
     ELSE /\ e' = Wrap("failed to RoundTripperFor", Cause("spdy"))
          /\ mainPc' = "done"
          /\ UNCHANGED jobVars
  /\ UNCHANGED <<cleanup, envVars, ctxDone, watchVars, handlerVars, logVars>>
  /\ UNCHANGED call

\* Run called directly: no callback.
RunPlain ==
  /\ mainPc = "start"
  /\ mainPc' = "create"
  /\ UNCHANGED <<e, cleanup, envVars, jobVars, ctxDone, watchVars, handlerVars, logVars>>
  /\ UNCHANGED call

\* Run: jobClient.Create; on success the cleanup is deferred, containerLogs
\* is made and its consumer started.
Create(ok) ==
  /\ mainPc = "create"
  /\ IF ok THEN mainPc' = "watch" /\ e' = e
     ELSE mainPc' = "done" /\ e' = Wrap("failed to create job", Cause("create"))
  /\ UNCHANGED <<cleanup, envVars, jobVars, ctxDone, watchVars, handlerVars, logVars>>
  /\ UNCHANGED call

\* wait: podClient.Watch; on success watchLoop starts the watch goroutine
\* and waits on its errgroup.
Wait(ok) ==
  /\ mainPc = "watch"
  /\ IF ok
     THEN /\ mainPc' = "egWait" /\ watchOpen' = TRUE /\ watchPc' = "recv" /\ e' = e
     ELSE /\ mainPc' = "cleanup" /\ UNCHANGED <<watchOpen, watchPc>>
          /\ e' = Wrap("failed to wait", Wrap("failed to start watch pod", Cause("watch")))
  /\ UNCHANGED <<cleanup, term, sentinel>>
  /\ UNCHANGED <<phase, pod, once, watchRet, egErr>>
  /\ UNCHANGED <<jobVars, ctxDone, handlerVars, logVars>>
  /\ UNCHANGED call

\* eg.Wait() of watchLoop returns once every goroutine of the group has
\* returned; wait stops the watcher; Run wraps the error.
EgWait ==
  /\ mainPc = "egWait"
  /\ watchPc = "done"
  /\ logPodPc \in {"none", "done"}
  /\ e' = IF IsNil(egErr) THEN Nil
          ELSE Wrap("failed to wait", Wrap("failed to watching",
                 Wrap("failed to wait in watchLoop", egErr)))
  /\ watchOpen' = FALSE
  /\ mainPc' = "cleanup"
  /\ UNCHANGED <<cleanup, term, sentinel>>
  /\ UNCHANGED <<jobVars, ctxDone, watchVars, handlerVars, logVars>>
  /\ UNCHANGED call

\* the error of Run after a failed delete of the job: e is overwritten
DeleteJobErr(prev) == Wrap("failed to delete job", Cause("delete job"))

\* the error of Run after a failed delete of a pod
DeletePodErr(prev) ==
  LET err == Wrap("failed to delete pod", Cause("delete pod"))
  IN IF IsNil(prev) THEN err ELSE JoinErr(prev, err)

RECURSIVE DeletePods(_, _)
\* the loop over podList.Items: oks[i] tells whether the i-th delete succeeds
DeletePods(prev, oks) ==
  IF oks = <<>> THEN prev
  ELSE DeletePods(IF Head(oks) THEN prev ELSE DeletePodErr(prev), Tail(oks))

\* a cleanup that returns at the first call that fails
CleanupCallsMutant(jobOk, n, oks) ==
  IF ~jobOk THEN <<[op |-> "deleteJob", ok |-> FALSE]>>
  ELSE <<[op |-> "deleteJob", ok |-> TRUE], [op |-> "list", ok |-> n >= 0]>>
       \o [i \in 1..(IF \E k \in DOMAIN oks : ~oks[k]
                      THEN CHOOSE k \in DOMAIN oks :
                             ~oks[k] /\ \A l \in 1..(k - 1) : oks[l]
                      ELSE Len(oks))
             |-> [op |-> "deletePod", ok |-> oks[i]]]

\* The calls the deferred function of Run makes, in order: jobClient.Delete
\* (jobOk: it succeeds), podClient.List (n pods listed; -1: it fails) and
\* podClient.Delete of every listed pod (oks[i]: the i-th succeeds).
CleanupCalls(jobOk, n, oks) ==
  <<[op |-> "deleteJob", ok |-> jobOk], [op |-> "list", ok |-> n >= 0]>>
  \o [i \in 1..Len(oks) |-> [op |-> "deletePod", ok |-> oks[i]]]

\* The deferred function of Run: jobClient.Delete, then podClient.List with
\* the label selector (n pods listed; -1: the call fails, its error is
\* dropped), then podClient.Delete of every listed pod.  cleanup records
\* the calls in order.
Cleanup(jobOk, n, oks) ==
  /\ mainPc = "cleanup"
  /\ Len(oks) = IF n > 0 THEN n ELSE 0
  /\ cleanup' = CleanupCalls(jobOk, n, oks)
  /\ e' = DeletePods(IF jobOk THEN e ELSE DeleteJobErr(e), oks)
  /\ mainPc' = "done"
  /\ UNCHANGED <<envVars, jobVars, ctxDone, watchVars, handlerVars, logVars>>
  /\ UNCHANGED call

(* ------------------------------ watchLoop ------------------------------ *)
\* the errgroup keeps the first non-nil error a goroutine returns
Record(first, err) == IF IsNil(first) THEN err ELSE first

\* a sync.Once that runs its function on every call
OnceDoMutant(done) == TRUE

\* once.Do(f) runs f when no call has run it before
OnceDo(done) == ~done

\* a loop body without the check of ctx.Err()
CtxErrMutant(done) == FALSE

\* the check of ctx.Err() at the head of the loop body
CtxErr(done) == done

\* a callback that leaves the executors as they are
BindPodMutant(exs, p) == exs

\* podRunningCallback: for _, exec := range executors { exec.pod = pod }
BindPod(exs, p) == [c \in RegCs |-> [exs[c] EXCEPT !.pod = p]]

\* the watch goroutine returns err: the errgroup records it
WatchReturn(err) ==
  /\ watchPc' = "done"
  /\ watchRet' = err
  /\ egErr' = Record(egErr, err)

\* One iteration of the loop of the watch goroutine: it receives the event
\* the orchestrator sends (the pod in phase ph), sets the pod variable,
\* checks the context, skips a repeated phase, and handles the phase up to
\* the call of the callback or the end of the body.
WatchEvent(ph) ==
  /\ watchPc = "recv"
  /\ CanSend(ph)
  /\ LET ev == Snapshot(term) IN
     /\ pod' = ev
     /\ IF CtxErr(ctxDone) THEN
          /\ WatchReturn(Wrap("context error", Canceled))
          /\ UNCHANGED <<phase, once, handlerCalls, executors, logPodPc>>
        ELSE IF ph = phase THEN
          UNCHANGED <<watchPc, watchRet, egErr, phase, once, handlerCalls, executors, logPodPc>>
        ELSE IF ph = "Running" THEN
          IF ~OnceDo(once) THEN
            /\ phase' = ph
            /\ UNCHANGED <<watchPc, watchRet, egErr, once, handlerCalls, executors, logPodPc>>
          ELSE IF callback THEN
            \* podRunningCallback(pod): every executor is bound to the pod
            /\ once' = TRUE
            /\ watchPc' = "callback"
            /\ handlerCalls' = handlerCalls + 1
            /\ executors' = BindPod(executors, ev)
            /\ UNCHANGED <<watchRet, egErr, phase, logPodPc>>
          ELSE
            /\ once' = TRUE
            /\ logPodPc' = "spawned"
            /\ phase' = ph
            /\ UNCHANGED <<watchPc, watchRet, egErr, handlerCalls, executors>>
        ELSE IF ph \in {"Succeeded", "Failed"} THEN
          /\ once' = TRUE
          /\ logPodPc' = IF OnceDo(once) THEN "spawned" ELSE logPodPc
          /\ WatchReturn(IF ph = "Failed" THEN FailedJobErr(ev) ELSE Nil)
          /\ UNCHANGED <<phase, handlerCalls, executors>>
        ELSE
          /\ phase' = ph
          /\ UNCHANGED <<watchPc, watchRet, egErr, once, handlerCalls, executors, logPodPc>>
  /\ UNCHANGED <<term, sentinel, watchOpen>>
  /\ UNCHANGED <<jobCmd, disabled, callback, runVars, ctxDone>>
  /\ UNCHANGED <<handlerRet, execDone, cancelInHandler>>
  /\ UNCHANGED <<logPod, lscPc, innerErr, readerVars, sinkVars>>
  /\ UNCHANGED call

\* The orchestrator ends the watch stream while the loop waits for an
\* event: the result channel is closed, the loop ends and nil is returned.
WatchClosed ==
  /\ watchPc = "recv"
  /\ watchOpen
  /\ watchOpen' = FALSE
  /\ watchPc' = "done"
  /\ UNCHANGED <<phase, pod, once, watchRet, egErr>>
  /\ UNCHANGED <<term, sentinel>>
  /\ UNCHANGED <<jobVars, runVars, ctxDone, handlerVars, logVars>>
  /\ UNCHANGED call

\* The orchestrator sends an event of type Error, whose object is a Status
\* and no pod: the type assertion event.Object.(*core.Pod) at the head of the
\* loop body panics in the watch goroutine, before ctx is looked at.  Nothing
\* recovers: the process ends with every goroutine of the run, the deferred
\* cleanup does not run and Run returns nothing.
WatchErrorEvent ==
  /\ watchPc = "recv"
  /\ PodExists
  /\ watchOpen
  /\ watchOpen' = FALSE
  /\ mainPc' = "panic"
  /\ watchPc' = "panic"
  /\ logPodPc' = "panic"
  /\ lscPc' = [c \in Cs |-> "panic"]
  /\ rdPc' = [c \in Cs |-> "panic"]
  /\ handling' = <<>>
  /\ UNCHANGED <<phase, pod, once, watchRet, egErr>>
  /\ UNCHANGED <<term, sentinel, e, cleanup>>
  /\ UNCHANGED <<logPod, innerErr, errchan, closed, nread, logs>>
  /\ UNCHANGED <<jobVars, ctxDone, handlerVars>>
  /\ UNCHANGED call

(* ------------------------- the execution handler ----------------------- *)
\* The handler calls Exec() on the executor of container c (once at most
\* per executor); a successful write of the sentinel file creates it.
HandlerExec(c, resp, hs) ==
  /\ watchPc = "callback"
  /\ ~execDone[c].called
  /\ LET r == Exec(executors[c], resp, hs) IN
     /\ execDone' = [execDone EXCEPT ![c] = [called |-> TRUE, err |-> r.err]]
     /\ sentinel' = IF hs.ok /\ IsRunning(c)
                    THEN [sentinel EXCEPT ![c] = r.second[2]]
                    ELSE sentinel
  /\ UNCHANGED <<term, watchOpen>>
  /\ UNCHANGED <<handlerCalls, handlerRet, cancelInHandler>>
  /\ UNCHANGED <<jobVars, runVars, ctxDone, watchVars, logVars>>
  /\ UNCHANGED call

\* The handler returns (herr: with an error).  The callback wraps the
\* error; the function given to once.Do then starts the log streaming
\* goroutine, and the loop body returns the callback's error if any.
HandlerReturn(herr) ==
  /\ watchPc = "callback"
  /\ handlerRet' = IF herr THEN "err" ELSE "nil"
  /\ logPodPc' = "spawned"
  /\ IF herr
     THEN /\ WatchReturn(Wrap("failed to callback for pod running",
                        Wrap("failed to handle executors", Cause("handler"))))
          /\ phase' = phase
     ELSE /\ watchPc' = "recv"
          /\ phase' = "Running"
          /\ UNCHANGED <<watchRet, egErr>>
  /\ UNCHANGED <<pod, once, handlerCalls, execDone, cancelInHandler>>
  /\ UNCHANGED <<envVars, jobVars, runVars, ctxDone>>
  /\ UNCHANGED <<logPod, lscPc, innerErr, readerVars, sinkVars>>
  /\ UNCHANGED call

(* ---------------------------- log streaming ---------------------------- *)
enabledInitCommandLog ==
  IF disabled.initContainerLog THEN FALSE
  ELSE IF disabled.initCommandLog THEN FALSE
  ELSE TRUE

enabledCommandLogMutant == ~disabled.containerLog

enabledCommandLog ==
  IF disabled.containerLog THEN FALSE
  ELSE IF disabled.commandLog THEN FALSE
  ELSE TRUE

\* the arguments logStreamPod passes to logStreamContainer for container c
CommandLogArg(c) == IF c \in InitCs THEN enabledInitCommandLog ELSE enabledCommandLog

EnabledLogArg(c) == IF c \in InitCs THEN ~disabled.initContainerLog ELSE ~disabled.containerLog

\* lscPc after logStreamPod goes on from init container c, which returned nil
\* (c = 0: from its start): the next init container is streamed, or one
\* goroutine per regular container is started.
StartAfter(c, pcs) ==
  IF c < NumInit THEN [pcs EXCEPT ![c + 1] = "open"]
  ELSE [k \in Cs |-> IF k \in RegCs THEN "open" ELSE pcs[k]]

\* The log streaming goroutine starts: logStreamPod(ctx, pod) reads the
\* shared pod variable and takes up the first container(s).
LogStreamPodStart ==
  /\ logPodPc = "spawned"
  /\ logPod' = pod
  /\ lscPc' = StartAfter(0, lscPc)
  /\ logPodPc' = IF NumInit > 0 THEN "init" ELSE "regular"
  /\ UNCHANGED <<innerErr, readerVars, sinkVars>>
  /\ UNCHANGED <<envVars, jobVars, runVars, ctxDone, watchVars, handlerVars>>
  /\ UNCHANGED call

\* logStreamContainer of container c returns err: for an init container
\* logStreamPod returns the error or goes on; for a regular container the
\* inner errgroup records it.
LscReturn(c, err) ==
  IF c \in InitCs THEN
    IF IsNil(err) THEN
      /\ lscPc' = StartAfter(c, [lscPc EXCEPT ![c] = "done"])
      /\ logPodPc' = IF c < NumInit THEN "init" ELSE "regular"
      /\ UNCHANGED <<egErr, innerErr>>
    ELSE
      /\ lscPc' = [lscPc EXCEPT ![c] = "done"]
      /\ logPodPc' = "done"
      /\ egErr' = Record(egErr, Wrap("failed to log stream pod",
                    Wrap("failed to log stream container", err)))
      /\ UNCHANGED innerErr
  ELSE
    /\ lscPc' = [lscPc EXCEPT ![c] = "done"]
    /\ innerErr' = IF IsNil(err) THEN innerErr
                   ELSE Record(innerErr, Wrap("failed to log stream container", err))
    /\ UNCHANGED <<egErr, logPodPc>>

\* logStreamContainer: the request of the log stream (Follow) of container c.
\* It succeeds only for a container that has been started.  Without the
\* command log the reader goroutine is started at once.
LscOpen(c, ok) ==
  /\ lscPc[c] = "open"
  /\ ok => Started(c)
  /\ IF ~ok THEN
       /\ LscReturn(c, Wrap("failed to create log stream", Cause("log stream")))
       /\ UNCHANGED rdPc
     ELSE IF CommandLogArg(c) THEN
       /\ lscPc' = [lscPc EXCEPT ![c] = "cmdlog"]
       /\ UNCHANGED <<rdPc, logPodPc, egErr, innerErr>>
     ELSE
       /\ lscPc' = [lscPc EXCEPT ![c] = "select"]
       /\ rdPc' = [rdPc EXCEPT ![c] = "read"]
       /\ UNCHANGED <<logPodPc, egErr, innerErr>>
  /\ UNCHANGED <<logPod, errchan, closed, nread, sinkVars>>
  /\ UNCHANGED <<watchPc, phase, pod, once, watchRet>>
  /\ UNCHANGED <<envVars, jobVars, runVars, ctxDone, handlerVars>>
  /\ UNCHANGED call

\* a consumer that takes the next event while the logger still handles one
ReceivingMutant(h) == TRUE

\* The consumer of containerLogs is at its receive: the channel has no
\* buffer and the one consumer goroutine calls the logger between two
\* receives, so a send is accepted only when no event is being handled.
Receiving(h) == h = <<>>

\* logStreamContainer: the command log is sent on containerLogs (received by
\* the consumer), then the reader goroutine is started.
LscCommandLog(c) ==
  /\ lscPc[c] = "cmdlog"
  /\ Receiving(handling)
  /\ handling' = <<[c |-> c, kind |-> "cmd", n |-> 0]>>
  /\ lscPc' = [lscPc EXCEPT ![c] = "select"]
  /\ rdPc' = [rdPc EXCEPT ![c] = "read"]
  /\ UNCHANGED <<logPodPc, logPod, innerErr, errchan, closed, nread, logs>>
  /\ UNCHANGED <<envVars, jobVars, runVars, ctxDone, watchVars, handlerVars>>
  /\ UNCHANGED call

\* errchan of container c, holding ch, once stream.Close() has run: a reader
\* blocked in ReadString gets an error, as from every later read; it sends
\* the errors until the buffer is full and blocks for ever.
ClosedErrchan(c, ch) == IF rdPc[c] = "read" /\ ch = "empty" THEN "err" ELSE ch

\* logStreamContainer: the select on ctx.Done() (byCtx) and errchan; the
\* deferred stream.Close() runs as it returns.
LscSelect(c, byCtx) ==
  /\ lscPc[c] = "select"
  /\ IF byCtx
     THEN /\ ctxDone
          /\ LscReturn(c, Wrap("context error", Canceled))
          /\ errchan' = [errchan EXCEPT ![c] = ClosedErrchan(c, @)]
     ELSE /\ errchan[c] # "empty"
          /\ LscReturn(c, IF errchan[c] = "err"
                          THEN Wrap("failed to log stream", Cause("read"))
                          ELSE Nil)
          /\ errchan' = [errchan EXCEPT ![c] = ClosedErrchan(c, "empty")]
  /\ closed' = [closed EXCEPT ![c] = TRUE]
  /\ rdPc' = [rdPc EXCEPT ![c] = IF @ = "read" THEN "blocked" ELSE @]
  /\ UNCHANGED <<logPod, nread, sinkVars>>
  /\ UNCHANGED <<watchPc, phase, pod, once, watchRet>>
  /\ UNCHANGED <<envVars, jobVars, runVars, ctxDone, handlerVars>>
  /\ UNCHANGED call

\* logStreamPod: eg.Wait() over the goroutines of the regular containers.
LogStreamPodWait ==
  /\ logPodPc = "regular"
  /\ \A c \in RegCs : lscPc[c] = "done"
  /\ logPodPc' = "done"
  /\ egErr' = Record(egErr, IF IsNil(innerErr) THEN Nil
                            ELSE Wrap("failed to log stream pod",
                                   Wrap("failed to wait", innerErr)))
  /\ UNCHANGED <<logPod, lscPc, innerErr, readerVars, sinkVars>>
  /\ UNCHANGED <<watchPc, phase, pod, once, watchRet>>
  /\ UNCHANGED <<envVars, jobVars, runVars, ctxDone, handlerVars>>
  /\ UNCHANGED call

(* ----------------------- the reader goroutine -------------------------- *)
\* what the reader does after ReadString returned io.EOF and the finish
\* event and the nil were sent: the loop has no return, it reads again
AfterEOF == "read"

\* reader.ReadString('\n') returns a line, io.EOF (the container has
\* terminated and every line was read) or another error (the stream has been
\* closed by logStreamContainer as it returned; the transport itself does
\* not fail).  A line is sent next when enabledLog, the finish event after
\* io.EOF, the error on errchan.
AtEOFMutant(c) == term[c] # ""

\* the stream (Follow) is at its end: the container has terminated and the
\* reader has had every line it wrote
AtEOF(c) == nread[c] = Lines(c) /\ term[c] # ""

ReaderRead(c, res) ==
  /\ rdPc[c] = "read"
  /\ IF res = "line" THEN
       /\ ~closed[c]
       /\ nread[c] < Lines(c)
       /\ nread' = [nread EXCEPT ![c] = @ + 1]
       /\ rdPc' = [rdPc EXCEPT ![c] = IF EnabledLogArg(c) THEN "sendLine" ELSE "read"]
       /\ UNCHANGED <<closed, errchan>>
     ELSE IF res = "eof" THEN
       /\ ~closed[c]
       /\ AtEOF(c)
       /\ rdPc' = [rdPc EXCEPT ![c] = "sendFin"]
       /\ UNCHANGED <<nread, closed, errchan>>
     ELSE
       \* nothing receives from errchan any more: the reader sends the
       \* errors of its reads until the buffer is full and blocks for ever
       /\ closed[c]
       /\ rdPc' = [rdPc EXCEPT ![c] = "blocked"]
       /\ errchan' = [errchan EXCEPT ![c] = IF @ = "empty" THEN "err" ELSE @]
       /\ UNCHANGED <<nread, closed>>
  /\ UNCHANGED <<logPodVars, sinkVars>>
  /\ UNCHANGED <<envVars, jobVars, runVars, ctxDone, watchVars, handlerVars>>
  /\ UNCHANGED call

\* the reader sends the line it read, or the finish event, on containerLogs
ReaderSend(c) ==
  /\ rdPc[c] \in {"sendLine", "sendFin"}
  /\ Receiving(handling)
  /\ IF rdPc[c] = "sendLine"
     THEN /\ handling' = <<[c |-> c, kind |-> "line", n |-> nread[c]]>>
          /\ rdPc' = [rdPc EXCEPT ![c] = "read"]
     ELSE /\ handling' = <<[c |-> c, kind |-> "fin", n |-> 0]>>
          /\ rdPc' = [rdPc EXCEPT ![c] = "putNil"]
  /\ UNCHANGED <<errchan, closed, nread, logs, logPodVars>>
  /\ UNCHANGED <<envVars, jobVars, runVars, ctxDone, watchVars, handlerVars>>
  /\ UNCHANGED call

\* the reader sends nil on errchan after the finish event (it blocks while
\* the buffer is full) and goes round the loop
ReaderPut(c) ==
  /\ rdPc[c] = "putNil"
  /\ errchan[c] = "empty"
  /\ errchan' = [errchan EXCEPT ![c] = "nil"]
  /\ rdPc' = [rdPc EXCEPT ![c] = AfterEOF]
  /\ UNCHANGED <<closed, nread, logPodVars, sinkVars>>
  /\ UNCHANGED <<envVars, jobVars, runVars, ctxDone, watchVars, handlerVars>>
  /\ UNCHANGED call

\* the consumer of containerLogs hands the event it received to the logger
\* (or to the default sink) and receives again
Consume ==
  /\ handling # <<>>
  /\ LET ev == handling[1] IN
     logs' = [logs EXCEPT ![ev.c] = Append(@, [kind |-> ev.kind, n |-> ev.n])]
  /\ handling' = <<>>
  /\ UNCHANGED <<logPodVars, readerVars>>
  /\ UNCHANGED <<envVars, jobVars, runVars, ctxDone, watchVars, handlerVars>>
  /\ UNCHANGED call

(* --------------------------- specification ----------------------------- *)
\* the steps of the program and of the orchestrator
Progress ==
  \/ \E c \in Cs, r \in {"Completed", "Error"} : ContainerExit(c, r)
  \/ \E rtOk \in BOOLEAN : RunWithExecutionHandler(rtOk)
  \/ RunPlain
  \/ \E ok \in BOOLEAN : Create(ok)
  \/ \E ok \in BOOLEAN : Wait(ok)
  \/ EgWait
  \/ \E jobOk \in BOOLEAN, n \in -1..MaxPods :
       \E oks \in [1..(IF n > 0 THEN n ELSE 0) -> BOOLEAN] : Cleanup(jobOk, n, oks)
  \/ \E ph \in Phases : WatchEvent(ph)
  \/ WatchClosed
  \/ WatchErrorEvent
  \/ \E c \in RegCs, resp \in Responses, hs \in Responses : HandlerExec(c, resp, hs)
  \/ \E herr \in BOOLEAN : HandlerReturn(herr)
  \/ LogStreamPodStart
  \/ \E c \in Cs, ok \in BOOLEAN : LscOpen(c, ok)
  \/ \E c \in Cs : LscCommandLog(c)
  \/ \E c \in Cs, byCtx \in BOOLEAN : LscSelect(c, byCtx)
  \/ LogStreamPodWait
  \/ \E c \in Cs, res \in {"line", "eof", "err"} : ReaderRead(c, res)
  \/ \E c \in Cs : ReaderSend(c)
  \/ \E c \in Cs : ReaderPut(c)
  \/ Consume

\* ... and the cancellation of ctx, which is up to the caller
Next == Cancel \/ Progress

Spec == Init /\ [][Next]_vars

(* ------- the methods of JobExecutor and FailedJob taken by themselves ---- *)
\* number of regular containers of the pods FailedContainers is called on
MaxContainers == 2

PureInitCs == 1..NumInit
PureRegCs == (NumInit + 1)..(NumInit + MaxContainers)

\* the sequences that list every element of S once
Perms(S) ==
  {f \in [1..Cardinality(S) -> S] :
     \A i, j \in 1..Cardinality(S) : f[i] = f[j] => i = j}

\* The pods FailedContainers can be called on: the containers in any order
\* in the pod spec; the statuses of the init containers in the order of the
\* spec and those of the regular containers sorted by name, as the kubelet
\* reports them; any termination reason for each.
PodObjects ==
  {[initContainers |-> ic,
    containers |-> rc,
    initContainerStatuses |->
      [k \in 1..NumInit |-> [name |-> ic[k], reason |-> r[ic[k]]]],
    containerStatuses |->
      [k \in 1..MaxContainers |->
         [name |-> NumInit + k, reason |-> r[NumInit + k]]]]
   : ic \in Perms(PureInitCs), rc \in Perms(PureRegCs),
     r \in [PureInitCs \cup PureRegCs -> Reasons]}

\* the executors Exec can be called on
BoundExecutors ==
  [command : {"orig"}, pod : {Snapshot(t) : t \in [Cs -> Reasons]}]

mainVars == <<envVars, jobVars, runVars, ctxDone, watchVars, handlerVars, logVars>>

\* a call of FailedJob.FailedContainers on a FailedJob whose Pod is po
DoFailedContainers(po) ==
  /\ call' = [op |-> "FailedContainers", input |-> po, result |-> FailedContainers(po)]
  /\ UNCHANGED mainVars

\* a call of JobExecutor.Exec
DoExec(ex, resp, hs) ==
  /\ call' = [op |-> "Exec",
              input |-> [ex |-> ex, resp |-> resp, hs |-> hs],
              result |-> Exec(ex, resp, hs)]
  /\ UNCHANGED mainVars

\* the largest retry count configured
MaxRetryCount == 3

\* What one attempt of an execution meets: success, the transient failure
\* (the control plane does not find the pod yet) or another failure (the
\* command or the transport failed).
Attempts == {"ok", "notfound", "failed"}

AttemptErr(a) ==
  IF a = "ok" THEN Nil
  ELSE IF a = "notfound" THEN Wrap("faield to exec command", Cause("pod not found"))
  ELSE Wrap("faield to exec command", Cause("stream"))

RECURSIVE ExecWithRetryMutant(_, _, _)
\* a retry layer that retries after every kind of failure
ExecWithRetryMutant(n, as, k) ==
  IF as[k] # "ok" /\ k < n
  THEN ExecWithRetryMutant(n, as, k + 1)
  ELSE [err |-> AttemptErr(as[k]), attempts |-> k]

RECURSIVE ExecWithRetry(_, _, _)
\* The retry layer with retry count n, from attempt k on, the attempts
\* meeting as[k], as[k + 1], ...: after a transient not-found failure the
\* call is made again while attempts are left; a success and every other
\* failure end it, as does the n-th attempt, whose error is surfaced.
ExecWithRetry(n, as, k) ==
  IF as[k] = "notfound" /\ k < n
  THEN ExecWithRetry(n, as, k + 1)
  ELSE [err |-> AttemptErr(as[k]), attempts |-> k]

\* an execution through the retry layer
DoExecWithRetry(n, as) ==
  /\ call' = [op |-> "ExecWithRetry",
              input |-> [n |-> n, attempts |-> as],
              result |-> ExecWithRetry(n, as, 1)]
  /\ UNCHANGED mainVars

\* the script of the polling wrapper
jobCommandTemplate == "while [ ! -f /tmp/kubejob-status ]; exit $(cat /tmp/kubejob-status)"

\* The regular containers a job can be built with: up to MaxContainers
\* containers with distinct names in any order, each with a command and
\* arguments (among them a shell call as the wrapper itself is one).
ContainerSpecs ==
  UNION {[1..n -> [name : PureRegCs,
                   command : {<<"echo", "$TEST">>, <<"sh">>},
                   args : {<<>>, <<"-c", "true">>}]] : n \in 0..MaxContainers}

ContainerLists ==
  {cs \in ContainerSpecs : \A i, j \in DOMAIN cs : cs[i].name = cs[j].name => i = j}

\* the command and the arguments RunWithExecutionHandler gives a container
Overwritten(container) ==
  [container EXCEPT !.command = <<"sh">>, !.args = <<"-c", jobCommandTemplate>>]

\* an executor that refers to the container of the job spec instead of
\* holding the copy made before the overwrite
NewExecutorMutant(container) ==
  [container |-> Overwritten(container).name,
   command |-> Overwritten(container).command,
   args |-> Overwritten(container).args]

\* the JobExecutor appended for a container: a copy of the container, its
\* command and its arguments
NewExecutor(container) ==
  [container |-> container.name,
   command |-> container.command,
   args |-> container.args]

RECURSIVE BuildExecutors(_, _, _)
\* The loop of RunWithExecutionHandler over the containers of the job spec
\* from index idx on: the executors appended and the containers as they are
\* left in the job that Run creates.
BuildExecutors(executorsSoFar, containers, idx) ==
  IF idx > Len(containers)
  THEN [executors |-> executorsSoFar, containers |-> containers]
  ELSE BuildExecutors(Append(executorsSoFar, NewExecutor(containers[idx])),
                      [containers EXCEPT ![idx] = Overwritten(@)],
                      idx + 1)

\* RunWithExecutionHandler on a job with the regular containers cs: the
\* executors the handler is called with and the containers of the job created
DoBuildExecutors(cs) ==
  /\ call' = [op |-> "RunWithExecutionHandler",
              input |-> cs,
              result |-> BuildExecutors(<<>>, cs, 1)]
  /\ UNCHANGED mainVars

\* number of jobs built one after the other
MaxJobs == 2

\* Label keys and values are numbers (the keys in the order of their
\* strings): the keys the caller uses, the keys of the generated labels
\* ("kubejob-label-<xid>", the xid counted from 1) and the key of the label
\* the job controller of the orchestrator puts on the pods of a job.
UserKeys == {1, 20}
GeneratedKey(xid) == 10 + xid
ControllerKey == 30

\* the label maps a caller can put into the pod template of a job spec
UserLabelMaps == UNION {[S -> {0}] : S \in SUBSET UserKeys}

\* The job specs BuildWithJob is called with, one after the other: the label
\* maps that exist (a Go map is a reference) and for each job spec the map
\* its pod template refers to (0: Labels is nil).  Two job specs can hold
\* the same map, as when both are made from one template value.
JobSpecInputs ==
  {[heap |-> h, refs |-> rs] :
     h \in UNION {[1..n -> UserLabelMaps] : n \in 0..MaxJobs},
     rs \in [1..MaxJobs -> 0..MaxJobs]} 

ValidJobSpecInputs ==
  {in \in JobSpecInputs :
     /\ \A j \in 1..MaxJobs : in.refs[j] <= Len(in.heap)
     /\ \A r \in DOMAIN in.heap : \E j \in 1..MaxJobs : in.refs[j] = r}

\* m[k] = v
SetLabel(m, k, v) == [x \in DOMAIN m \cup {k} |-> IF x = k THEN v ELSE m[x]]

\* JobBuilder.BuildWithJob on the job spec whose template refers to the map
\* ref, xid being the number of names generated so far: the label name is
\* generated, a nil Labels is replaced by a new map, and the label is set in
\* the map the template refers to.
BuildWithJob(heap, xid, ref) ==
  LET labelName == GeneratedKey(xid + 1)
      h == IF ref = 0 THEN Append(heap, << >>) ELSE heap
      r == IF ref = 0 THEN Len(h) ELSE ref
  IN [heap |-> [h EXCEPT ![r] = SetLabel(@, labelName, labelName)],
      xid |-> xid + 1,
      job |-> [labels |-> r, labelName |-> labelName]]

RECURSIVE BuildJobs(_, _, _, _)
\* BuildWithJob on the job specs refs[j], refs[j + 1], ...
BuildJobs(heap, xid, refs, jobs) ==
  IF Len(jobs) = Len(refs) THEN [heap |-> heap, jobs |-> jobs]
  ELSE LET b == BuildWithJob(heap, xid, refs[Len(jobs) + 1])
       IN BuildJobs(b.heap, b.xid, refs, Append(jobs, b.job))

RECURSIVE SortKeys(_)
\* sort.Strings(keys)
SortKeys(K) ==
  IF K = {} THEN <<>>
  ELSE LET k == CHOOSE x \in K : \A y \in K : x <= y
       IN <<k>> \o SortKeys(K \ {k})

\* Job.labelSelector: "k=v" for every label of the pod template, in the
\* order of the keys, joined by ","
labelSelector(labels) ==
  LET keys == SortKeys(DOMAIN labels)
  IN [i \in 1..Len(keys) |-> <<keys[i], labels[keys[i]]>>]

\* the orchestrator: a pod matches a selector when it carries every "k=v" of it
Matches(selector, podLabels) ==
  \A i \in DOMAIN selector :
    /\ selector[i][1] \in DOMAIN podLabels
    /\ podLabels[selector[i][1]] = selector[i][2]

\* the labels of the pods of the j-th job: those of its pod template and
\* the label of the job controller
PodLabels(labels, j) == SetLabel(labels, ControllerKey, j)

\* MaxJobs jobs are built with BuildWithJob and then run at the same time:
\* the selector each one watches and cleans up with, and the labels of the
\* pods of each
DoBuildWithJob(in) ==
  /\ LET b == BuildJobs(in.heap, 0, in.refs, <<>>) IN
     call' = [op |-> "BuildWithJob",
              input |-> in,
              result |->
                [jobs |-> b.jobs,
                 selector |-> [j \in 1..MaxJobs |->
                                 labelSelector(b.heap[b.jobs[j].labels])],
                 podLabels |-> [j \in 1..MaxJobs |->
                                  PodLabels(b.heap[b.jobs[j].labels], j)]]]
  /\ UNCHANGED mainVars

\* the largest number of pods the cleanup finds
MaxListed == 3

\* the deferred cleanup of Run, e being the error of the run so far
DoCleanup(err, jobOk, n, oks) ==
  /\ call' = [op |-> "cleanup",
              input |-> [e |-> err, jobOk |-> jobOk, listed |-> n, oks |-> oks],
              result |-> [calls |-> CleanupCalls(jobOk, n, oks),
                          e |-> DeletePods(IF jobOk THEN err ELSE DeleteJobErr(err), oks)]]
  /\ UNCHANGED mainVars

\* the largest number of bytes a container writes to its log stream
MaxBytes == 3

\* the contents of a log stream: the bytes written before the container ends
LogStreams ==
  UNION {[1..n -> {"a", "\n"}] : n \in 0..MaxBytes}

\* bufio.Reader.ReadString('\n') on the rest of the stream from pos on: the
\* bytes up to and including the first newline, or, if there is none, all
\* the bytes left together with io.EOF
ReadString(stream, pos) ==
  LET delims == {i \in pos..Len(stream) : stream[i] = "\n"}
  IN IF delims = {}
     THEN [line |-> SubSeq(stream, pos, Len(stream)), err |-> "EOF",
           pos |-> Len(stream) + 1]
     ELSE LET k == CHOOSE i \in delims : \A j \in delims : i <= j
          IN [line |-> SubSeq(stream, pos, k), err |-> "nil", pos |-> k + 1]

RECURSIVE ReaderEvents(_, _, _, _)
\* The loop of the reader goroutine of logStreamContainer on a stream that
\* has ended, from pos on, up to its first put of nil on errchan: the log
\* events it sends on containerLogs after those of sent.
ReaderEvents(stream, pos, enabledLog, sent) ==
  LET r == ReadString(stream, pos)
  IN IF r.err = "nil"
     THEN ReaderEvents(stream, r.pos, enabledLog,
                       IF enabledLog
                       THEN Append(sent, [Log |-> r.line, IsFinished |-> FALSE])
                       ELSE sent)
     ELSE Append(sent, [Log |-> <<>>, IsFinished |-> TRUE])

\* the reader goroutine on the log stream of a container that has ended
DoReadStream(stream, enabledLog) ==
  /\ call' = [op |-> "logStreamContainer",
              input |-> [stream |-> stream, enabledLog |-> enabledLog],
              result |-> ReaderEvents(stream, 1, enabledLog, <<>>)]
  /\ UNCHANGED mainVars

\* RunWithExecutionHandler invoked twice on the same Job, which has the
\* regular containers cs and the settings d before the first invocation:
\* the executors each invocation gives its handler, and the settings after
DoRunWithExecutionHandlerTwice(cs, d) ==
  LET first == BuildExecutors(<<>>, cs, 1)
      second == BuildExecutors(<<>>, first.containers, 1)
  IN /\ call' = [op |-> "RunWithExecutionHandler twice",
                 input |-> [containers |-> cs, disabled |-> d],
                 result |-> [first |-> first.executors,
                             second |-> second.executors,
                             disabled |-> DisableCommandLog(DisableCommandLog(d))]]
     /\ UNCHANGED mainVars

PureNext ==
  \/ \E err \in {Nil, Wrap("failed to wait", Cause("watch"))},
        jobOk \in BOOLEAN, n \in -1..MaxListed :
       \E oks \in [1..(IF n > 0 THEN n ELSE 0) -> BOOLEAN] : DoCleanup(err, jobOk, n, oks)
  \/ \E in \in ValidJobSpecInputs : DoBuildWithJob(in)
  \/ \E cs \in ContainerLists : DoBuildExecutors(cs)
  \/ \E po \in PodObjects : DoFailedContainers(po)
  \/ \E ex \in BoundExecutors, resp \in Responses, hs \in Responses : DoExec(ex, resp, hs)
  \/ \E n \in 1..MaxRetryCount, as \in [1..MaxRetryCount -> Attempts] :
       DoExecWithRetry(n, as)
  \/ \E stream \in LogStreams, enabledLog \in BOOLEAN :
       DoReadStream(stream, enabledLog)
  \/ \E cs \in ContainerLists, d \in LogSettings :
       DoRunWithExecutionHandlerTwice(cs, d)

SpecPure == Init /\ [][PureNext]_vars

(* ------------------------------- claims -------------------------------- *)
\* Run (or RunWithExecutionHandler) has returned
Returned == mainPc = "done"

\* every call of the cleanup succeeded
CleanupOk == \A i \in 1..Len(cleanup) : cleanup[i].ok

Terminal == {"Succeeded", "Failed"}

\* an init container has failed
InitFailed == \E i \in InitCs : term[i] = "Error"

\* big holds small as a run of consecutive elements
Contains(big, small) ==
  \E i \in 0..(Len(big) - Len(small)) : SubSeq(big, i + 1, i + Len(small)) = small

\* the number of times m occurs in sq
Count(sq, m) == Cardinality({i \in 1..Len(sq) : sq[i] = m})

\* the number of finish events of container c sent on containerLogs so far
FinSent(c) ==
  Cardinality({i \in 1..Len(logs[c]) : logs[c][i].kind = "fin"})
    + (IF handling # <<>> /\ handling[1].c = c /\ handling[1].kind = "fin"
       THEN 1 ELSE 0)

\* C1: in a run with the execution handler installed the pod-running
\* callback is never invoked more than once, whatever events are delivered
\* (repeated Running events, Running again after another phase), and it has
\* been invoked exactly once as soon as the watch loop has handled a Running
\* event.
C1_CallbackOnce ==
  /\ handlerCalls <= 1
  /\ callback /\ (watchPc = "callback" \/ phase = "Running") => handlerCalls = 1

\* the callback was invoked and returned nil, another phase has been handled
\* since, and the orchestrator reports Running again
C1_Witness ==
  /\ callback /\ handlerCalls = 1 /\ handlerRet = "nil"
  /\ phase = "Unknown" /\ watchPc = "recv" /\ ~ctxDone
  /\ CanSend("Running")

\* C2: once the job is created, Run goes on to its cleanup on every exit
\* path: as long as the cleanup has not run, a step of the program or of the
\* orchestrator is possible, so that the run never depends on the caller
\* cancelling ctx to reach the cleanup.
C2_CleanupReached ==
  mainPc \in {"watch", "egWait", "cleanup"} => ENABLED Progress

\* C3: when ctx is cancelled while the handler is being called and the
\* handler returns nil without having called Exec on any executor,
\* RunWithExecutionHandler returns nil (the cleanup calls succeeding).
C3_CancelReturnsNil ==
  (/\ Returned /\ callback /\ cancelInHandler /\ handlerRet = "nil"
   /\ \A c \in RegCs : ~execDone[c].called
   /\ CleanupOk)
  => IsNil(e)

\* C4: for every container whose log stream is tailed, never more than one
\* finish event is sent on containerLogs, and exactly one has been sent when
\* Run returns without an error of the watch loop's group.
C4_OneFinishEvent ==
  \A c \in Cs :
    /\ FinSent(c) <= 1
    /\ Returned /\ IsNil(egErr) /\ rdPc[c] # "idle" => FinSent(c) = 1

\* C5: when the command of a container fails, the error Exec returns is a
\* FailedJob whose FailedContainers is the list of just that container.
C5_ExecFailedContainers ==
  \A c \in RegCs :
    execDone[c].called /\ ~IsNil(execDone[c].err) =>
      /\ execDone[c].err.fj # {}
      /\ \A p \in execDone[c].err.fj : FailedContainers(PodObject(p)) = <<c>>

\* C6: the bytes Exec returns are the bytes the command wrote to stdout and
\* stderr, whether the command succeeded or failed.
C6_ExecOutput ==
  call.op = "Exec" => call.result.out = call.input.resp.output

\* the status of the container called name in po has the reason "Error"
HasError(po, name) ==
  \/ \E i \in 1..Len(po.initContainerStatuses) :
       po.initContainerStatuses[i] = [name |-> name, reason |-> "Error"]
  \/ \E i \in 1..Len(po.containerStatuses) :
       po.containerStatuses[i] = [name |-> name, reason |-> "Error"]

\* C7: FailedContainers returns exactly the containers whose status has the
\* termination reason "Error", the init containers first and then the
\* regular containers, each group in the order of the pod spec.
C7_FailedContainersSpecOrder ==
  call.op = "FailedContainers" =>
    call.result =
      SelectSeq(call.input.initContainers, LAMBDA n : HasError(call.input, n))
        \o SelectSeq(call.input.containers, LAMBDA n : HasError(call.input, n))

\* C8: when the watch loop has handled a Failed event (ctx not cancelled) and
\* so returned a FailedJob, the error Run returns wraps that FailedJob with
\* the pod of that event, whatever the log streaming returned (the cleanup
\* calls succeeding).
C8_FailedJobReturned ==
  Returned /\ watchRet.fj # {} /\ CleanupOk => e.fj = watchRet.fj

\* C9: the cleanup adds its failures to the error of the run: the error Run
\* returns still holds the error the run had produced, names the failed
\* delete of the job and names every failed delete of a pod.
C9_Step ==
  mainPc = "cleanup" /\ mainPc' = "done" =>
    /\ Contains(e'.msg, e.msg)
    /\ ~cleanup'[1].ok => Count(e'.msg, "failed to delete job") = 1
    /\ Count(e'.msg, "failed to delete pod")
         = Cardinality({i \in 1..Len(cleanup') :
                          cleanup'[i].op = "deletePod" /\ ~cleanup'[i].ok})

C9_DeleteErrorsAggregated == [][C9_Step]_vars

\* a regular container has terminated only after its sentinel file was
\* written, and with the status written there
ExitsBySentinel ==
  \A c \in RegCs :
    term[c] # "" =>
      /\ sentinel[c] # "none"
      /\ term[c] = "Completed" <=> sentinel[c] = "0"

\* C10: under RunWithExecutionHandler a regular container terminates only
\* after its sentinel file was written, with the status written there; the
\* pod is Succeeded or Failed only after the sentinel of every regular
\* container was written, and a pod with an executor never driven is not
\* terminal.
C10_SentinelBeforeTerminal ==
  callback =>
    /\ ExitsBySentinel
    /\ PodPhase \in Terminal =>
         \A c \in RegCs : sentinel[c] # "none" /\ execDone[c].called

\* C10, amended: the same, for a pod none of whose init containers failed
\* (init containers run their own command and fail the pod by themselves).
C10_SentinelBeforeTerminalUnlessInitFailed ==
  callback =>
    /\ ExitsBySentinel
    /\ PodPhase \in Terminal /\ ~InitFailed =>
         \A c \in RegCs : sentinel[c] # "none" /\ execDone[c].called

\* the pod has failed because a regular container, its sentinel written by
\* a failed Exec, exited with status 1
C10_Witness ==
  /\ callback /\ PodPhase = "Failed" /\ ~InitFailed
  /\ \E c \in RegCs : sentinel[c] = "1" /\ term[c] = "Error" /\ execDone[c].called

\* C11: every call of Exec runs the command and then attempts the write of
\* the sentinel file, with status 0 after a success and 1 after a failure of
\* the command; the error returned is nil exactly when the command succeeded
\* and the FailedJob of the executor's pod otherwise, whatever the outcome of
\* the write.
C11_HandshakeAlwaysAttempted ==
  call.op = "Exec" =>
    /\ call.result.second =
         <<"echo", IF call.input.resp.ok THEN "0" ELSE "1", ">", "/tmp/kubejob-status">>
    /\ call.result.err =
         IF call.input.resp.ok THEN Nil ELSE FailedJobErr(call.input.ex.pod)

\* a call whose command succeeded and whose write of the sentinel file
\* failed returned nil
C11_Witness ==
  /\ call.op = "Exec"
  /\ call.input.resp.ok /\ ~call.input.hs.ok
  /\ IsNil(call.result.err)

\* the pod of snapshot p is running: its init containers have completed and
\* a regular container has not terminated
RunningSnapshot(p) ==
  /\ ~p.nil
  /\ \A i \in InitCs : p.term[i] = "Completed"
  /\ \E c \in RegCs : p.term[c] = ""

\* C12: the handler is invoked only once a Running event has been handled,
\* every executor bound to the pod of that event; while the handler runs the
\* watch loop has classified no terminal phase (it has not returned), and
\* when the loop has returned the handler is not running any more.
C12_HandlerBetweenRunningAndTerminal ==
  /\ handlerCalls > 0 =>
       once /\ \A c \in RegCs : RunningSnapshot(executors[c].pod)
  /\ watchPc = "callback" =>
       /\ handlerCalls > 0 /\ handlerRet = "none" /\ IsNil(watchRet)
       /\ \A c \in RegCs : executors[c].pod = pod
  /\ watchPc = "done" /\ handlerCalls > 0 => handlerRet # "none"

\* the loop has classified the phase Failed after the handler returned nil
C12_Witness ==
  /\ handlerCalls = 1 /\ handlerRet = "nil"
  /\ watchPc = "done" /\ watchRet.fj # {}

\* the steps of the run that wait neither for the caller nor for the
\* orchestrator to send a watch event, end a container or deliver log data
Internal ==
  \/ \E rtOk \in BOOLEAN : RunWithExecutionHandler(rtOk)
  \/ RunPlain
  \/ \E ok \in BOOLEAN : Create(ok)
  \/ \E ok \in BOOLEAN : Wait(ok)
  \/ EgWait
  \/ \E jobOk \in BOOLEAN, n \in -1..MaxPods :
       \E oks \in [1..(IF n > 0 THEN n ELSE 0) -> BOOLEAN] : Cleanup(jobOk, n, oks)
  \/ \E c \in RegCs, resp \in Responses, hs \in Responses : HandlerExec(c, resp, hs)
  \/ \E herr \in BOOLEAN : HandlerReturn(herr)
  \/ LogStreamPodStart
  \/ \E c \in Cs, ok \in BOOLEAN : LscOpen(c, ok)
  \/ \E c \in Cs : LscCommandLog(c)
  \/ \E c \in Cs, byCtx \in BOOLEAN : LscSelect(c, byCtx)
  \/ LogStreamPodWait
  \/ \E c \in Cs : ReaderRead(c, "err")
  \/ \E c \in Cs : ReaderSend(c)
  \/ \E c \in Cs : ReaderPut(c)
  \/ Consume

\* C13: after ctx is cancelled the watch loop and the log streaming tasks
\* stop and Run returns without a further watch event or further log data:
\* as long as Run has not returned, a step of the run itself is possible,
\* also when the loop has already handled the present phase of the pod (the
\* orchestrator has nothing new to report).
C13_ReturnsAfterCancel ==
  (/\ ctxDone /\ mainPc \in {"watch", "egWait", "cleanup"}
   /\ phase = PodPhase)
  => ENABLED Internal

\* err is a cancellation error
IsCancellation(err) == Count(err.msg, "context canceled") > 0

\* C14: once a task of the run has produced an error that is no
\* cancellation, the other tasks are cancelled and Run returns that error;
\* in particular, once the handler has returned an error, a step of the run
\* itself is possible as long as Run has not returned, without ctx being
\* cancelled, a watch event or the end of a log stream.
C14_FirstErrorCancelsGroup ==
  (/\ mainPc = "egWait" /\ ~ctxDone
   /\ handlerRet = "err"
   /\ ~IsNil(egErr) /\ ~IsCancellation(egErr))
  => ENABLED Internal

\* C15: log streaming runs concurrently with the execution handler: while the
\* handler executes (Running has been observed), the task that tails the
\* containers' logs has been started, so that a line can reach the logger
\* before the handler returns.
C15_LogStreamingDuringHandler ==
  watchPc = "callback" => logPodPc # "none"

\* the output lines among the events of a container's log, in the order of
\* their delivery
LineEvents(l) == SelectSeq(l, LAMBDA ev : ev.kind = "line")

\* C16: the events the logger receives for one container are in the order in
\* which the container produced its lines (the k-th line delivered is the
\* k-th line written), and no line is delivered after a finish event of that
\* container.
C16_PerContainerOrder ==
  \A c \in Cs :
    /\ \A k \in DOMAIN LineEvents(logs[c]) : LineEvents(logs[c])[k].n = k
    /\ \A i, j \in DOMAIN logs[c] :
         i < j /\ logs[c][i].kind = "fin" => logs[c][j].kind # "line"

\* a container's two lines and then its finish event have reached the logger
C16_Witness ==
  \E c \in Cs :
    /\ Len(LineEvents(logs[c])) = MaxLines
    /\ logs[c][Len(logs[c])].kind = "fin"

\* command logging is enabled for container c: neither the logging of its
\* kind of container nor the command logging of that kind is disabled
CommandLoggingEnabled(c) ==
  IF c \in InitCs
  THEN ~disabled.initContainerLog /\ ~disabled.initCommandLog
  ELSE ~disabled.containerLog /\ ~disabled.commandLog

\* C17: with command logging enabled for a container, the command-echo event
\* is the first event the logger receives for it (before every output line)
\* and is not repeated; with one of the two flags disabled, no command-echo
\* event is delivered for the container.
C17_CommandEchoFirst ==
  \A c \in Cs :
    /\ CommandLoggingEnabled(c) /\ logs[c] # <<>> => logs[c][1].kind = "cmd"
    /\ \A i \in DOMAIN logs[c] :
         logs[c][i].kind = "cmd" => CommandLoggingEnabled(c) /\ i = 1

\* the command echo and then an output line of a container have reached the
\* logger
C17_Witness ==
  \E c \in Cs :
    /\ CommandLoggingEnabled(c)
    /\ Len(logs[c]) >= 2
    /\ logs[c][1].kind = "cmd" /\ logs[c][2].kind = "line"

\* C18: with a retry count of N, an execution whose first N-1 attempts meet
\* the transient not-found failure and whose N-th attempt succeeds returns no
\* error; one whose N attempts all meet it returns an error; and an attempt
\* is made again only after a not-found failure: every attempt before the
\* last one made met not-found, and no more than N attempts are made.
C18_RetryOnlyNotFound ==
  call.op = "ExecWithRetry" =>
    LET n == call.input.n
        as == call.input.attempts
        res == call.result
    IN /\ ((\A k \in 1..(n - 1) : as[k] = "notfound") /\ as[n] = "ok"
            => IsNil(res.err) /\ res.attempts = n)
       /\ ((\A k \in 1..n : as[k] = "notfound") => ~IsNil(res.err))
       /\ res.attempts \in 1..n
       /\ \A k \in 1..(res.attempts - 1) : as[k] = "notfound"
       /\ (as[res.attempts] = "failed" => ~IsNil(res.err))

\* with the largest retry count, not-found failures on every attempt but the
\* last, which succeeds
C18_Witness ==
  /\ call.op = "ExecWithRetry"
  /\ call.input.n = MaxRetryCount
  /\ \A k \in 1..(MaxRetryCount - 1) : call.input.attempts[k] = "notfound"
  /\ call.input.attempts[MaxRetryCount] = "ok"
  /\ IsNil(call.result.err)

\* C19: the job RunWithExecutionHandler creates has the polling wrapper as
\* command and arguments of every regular container, and the handler
\* receives one executor per regular container, in the order of the job
\* spec, each holding the command and the arguments the container had before
\* the overwrite.
C19_WrapperCreatedOriginalKept ==
  call.op = "RunWithExecutionHandler" =>
    LET cs == call.input
        res == call.result
    IN /\ Len(res.containers) = Len(cs)
       /\ Len(res.executors) = Len(cs)
       /\ \A k \in DOMAIN cs :
            /\ res.containers[k].name = cs[k].name
            /\ res.containers[k].command = <<"sh">>
            /\ res.containers[k].args = <<"-c", jobCommandTemplate>>
            /\ res.executors[k].container = cs[k].name
            /\ res.executors[k].command = cs[k].command
            /\ res.executors[k].args = cs[k].args

\* a job of two containers with different commands, listed against the order
\* of their names
C19_Witness ==
  /\ call.op = "RunWithExecutionHandler"
  /\ Len(call.input) = MaxContainers
  /\ call.input[1].name > call.input[2].name
  /\ call.input[1].command # call.input[2].command
  /\ Len(call.result.executors) = MaxContainers

\* C20: when the execution of the command fails, the error Exec returns is a
\* FailedJob and carries the cause from the lower layer: its message is more
\* than the bare message of FailedJob and holds the cause.
C20_ExecErrorCarriesCause ==
  call.op = "Exec" /\ ~call.input.resp.ok =>
    /\ call.result.err.fj = {call.input.ex.pod}
    /\ call.result.err.msg # <<"failed to job">>
    /\ Count(call.result.err.msg, "stream") > 0

\* the watch of the pods failed to start
WatchStartFailed == Contains(e.msg, <<"failed to wait", "failed to start watch pod">>)

\* C21: a failure of the watch never crashes the run, and a run whose watch
\* failed to start returns an error that names the watch stage, after the
\* cleanup has run.
C21_WatchFailureReturned ==
  /\ mainPc # "panic"
  /\ Returned /\ WatchStartFailed => cleanup # <<>>
  /\ mainPc = "cleanup" /\ ~watchOpen /\ watchPc = "idle" => WatchStartFailed

\* the watch loop processes an event (the stream stays open) with ctx
\* cancelled and returns
C22_Step ==
  /\ ctxDone
  /\ watchPc = "recv" /\ watchPc' = "done"
  /\ watchOpen'

\* C22: a watch event that the loop processes after ctx was cancelled, one of
\* phase Failed included, never makes it return a FailedJob: neither the
\* error of the watch goroutine nor the error of watchLoop holds one.
C22_NoFailedJobAfterCancel ==
  [][C22_Step => watchRet'.fj = {} /\ egErr'.fj = {}]_vars

\* the loop ended with the context error on the event that reported the pod
\* as failed
C22_Witness ==
  /\ ctxDone
  /\ watchPc = "done"
  /\ Count(watchRet.msg, "context error") > 0
  /\ pod = Snapshot(term) /\ PodPhase = "Failed"

\* the watch loop processes a terminal event: it returns with ctx not
\* cancelled and the stream open
C23_TerminalStep ==
  /\ ~ctxDone
  /\ watchPc = "recv" /\ watchPc' = "done"
  /\ watchOpen'

\* C23: log streaming is started at most once in a run (the task is started
\* only when none was started before, and once started it stays started),
\* and a terminal event starts it unless an earlier event did: after a
\* terminal event it has been started exactly once.
C23_LogStreamingStartedOnce ==
  [][/\ (logPodPc' = "spawned" /\ logPodPc' # logPodPc => logPodPc = "none")
     /\ (logPodPc # "none" => logPodPc' # "none")
     /\ (C23_TerminalStep => logPodPc' # "none")]_vars

\* the pod failed before it ever ran (the handler was never called): the
\* Failed event started the log streaming, which has ended
C23_Witness ==
  /\ callback /\ handlerCalls = 0
  /\ watchPc = "done" /\ watchRet.fj # {}
  /\ logPodPc = "done"

\* C24: containerLogs has one consumer.  The logger never executes two
\* events at the same time, and it handles the events in the order in which
\* the sends were accepted: while the process runs, an event that was
\* accepted is the only one in the consumer's hands, and the next thing that
\* happens to it is that it is appended to the log of its container, before
\* another send is accepted.
C24_SingleConsumerInOrder ==
  [][/\ Len(handling') <= 1
     /\ (handling # <<>> /\ handling' # handling /\ mainPc' # "panic" =>
           /\ handling' = <<>>
           /\ logs' = [logs EXCEPT ![handling[1].c] =
                         Append(@, [kind |-> handling[1].kind, n |-> handling[1].n])])
     /\ (logs' # logs => handling # <<>> /\ handling' = <<>>)]_vars

\* two tailers at work at the same time: the logger holds an event of one
\* container while the reader of another one has an event to send
C24_Witness ==
  \E c, d \in Cs :
    /\ c # d
    /\ handling # <<>> /\ handling[1].c = c
    /\ rdPc[d] \in {"sendLine", "sendFin"}

\* C25: the jobs built by BuildWithJob carry generated labels that differ
\* from one another, the selector of a job asks for its label, and when the
\* jobs run at the same time the selector of one (used by its watch and by
\* its cleanup) matches no pod of another.
C25_SelectorsDisjoint ==
  call.op = "BuildWithJob" =>
    LET res == call.result IN
    \A j, k \in 1..MaxJobs :
      /\ \E i \in DOMAIN res.selector[j] :
           res.selector[j][i] = <<res.jobs[j].labelName, res.jobs[j].labelName>>
      /\ j # k =>
           /\ res.jobs[j].labelName # res.jobs[k].labelName
           /\ ~Matches(res.selector[j], res.podLabels[k])

\* C26: the cleanup attempts the delete of the job first, then lists the
\* pods, then attempts a delete on every pod listed, in the order of the
\* list, whether or not the delete of the job or of an earlier pod failed.
C26_CleanupOrder ==
  call.op = "cleanup" =>
    LET calls == call.result.calls
        n == IF call.input.listed > 0 THEN call.input.listed ELSE 0
    IN /\ Len(calls) = 2 + n
       /\ calls[1] = [op |-> "deleteJob", ok |-> call.input.jobOk]
       /\ calls[2].op = "list"
       /\ \A i \in 1..n : calls[2 + i] = [op |-> "deletePod", ok |-> call.input.oks[i]]

\* the delete of the job and of the first pod failed and the other pods
\* were still deleted
C26_Witness ==
  /\ call.op = "cleanup"
  /\ ~call.input.jobOk /\ call.input.listed = MaxListed /\ ~call.input.oks[1]
  /\ Len(call.result.calls) = 2 + MaxListed
  /\ call.result.calls[2 + MaxListed].ok

\* Exec() on the executor of container c reported a failure
ExecFailed(c) == execDone[c].called /\ ~IsNil(execDone[c].err)

\* under RunWithExecutionHandler: the sentinel file of a regular container
\* holds 0 exactly when its Exec() returned no error and 1 otherwise, and the
\* wrapper of a container that has ended exited non-zero exactly when its
\* Exec() reported a failure
StatusFollowsExec ==
  \A c \in RegCs :
    /\ sentinel[c] # "none" =>
         /\ execDone[c].called
         /\ sentinel[c] = (IF IsNil(execDone[c].err) THEN "0" ELSE "1")
    /\ term[c] # "" => (term[c] = "Error" <=> ExecFailed(c))

\* C27: the status Exec() writes is 0 exactly when the execution returned no
\* error, the wrapper exits non-zero exactly when Exec() reported a failure,
\* and the pod ends in phase Failed exactly when the Exec() of at least one
\* regular container reported a failure.
C27_StatusFollowsExec ==
  callback =>
    /\ StatusFollowsExec
    /\ PodPhase \in Terminal =>
         (PodPhase = "Failed" <=> \E c \in RegCs : ExecFailed(c))

\* C27 as amended: ... and, unless an init container failed, the pod ends in
\* phase Failed exactly when the Exec() of at least one regular container
\* reported a failure.
C27_StatusFollowsExecUnlessInitFailed ==
  callback =>
    /\ StatusFollowsExec
    /\ PodPhase \in Terminal /\ ~InitFailed =>
         (PodPhase = "Failed" <=> \E c \in RegCs : ExecFailed(c))

\* an Exec() failed, 1 was written, the wrapper exited with it and the pod
\* has failed
C27_Witness ==
  /\ callback /\ ~InitFailed
  /\ PodPhase = "Failed"
  /\ \E c \in RegCs : ExecFailed(c) /\ sentinel[c] = "1" /\ term[c] = "Error"

\* C28: RunWithExecutionHandler leaves the init containers as they are: the
\* job is created with their own command, and the executors handed to the
\* handler are those of the regular containers only.
C28_InitContainersUntouched ==
  callback =>
    /\ \A i \in InitCs : jobCmd[i] = "orig"
    /\ DOMAIN executors = RegCs
    /\ \A c \in RegCs : jobCmd[c] = "wrapper"

\* the handler is being called after an init container has run its own
\* command to the end, writing its lines
C28_Witness ==
  /\ callback /\ watchPc = "callback"
  /\ \E i \in InitCs : term[i] = "Completed" /\ Lines(i) = MaxLines

\* C29: Run returns nil only if the watch loop processed an event of phase
\* Succeeded; a pod that was reported as succeeded has succeeded for good, so
\* whenever Run has returned nil after it created the job, the phase of the
\* pod is Succeeded.
C29_NilOnlyAfterSucceeded ==
  Returned /\ cleanup # <<>> /\ IsNil(e) => PodPhase = "Succeeded"

\* C30: the log streaming task streams the pod of the event that started
\* it: in a run with the handler called, that event is the Running event the
\* executors were bound to, and the pod the task has read is that pod (the
\* watch loop has not written the shared variable in between).
C30_LogStreamReadsTriggeringPod ==
  handlerCalls > 0 /\ ~logPod.nil =>
    \A c \in RegCs : logPod = executors[c].pod

\* C31: when Run has returned, every log event sent during the run has been
\* handled by the logger to the end, and no reader task has an event left
\* to deliver: the logger is not invoked after the return.
C31_LoggerQuietAfterReturn ==
  Returned =>
    /\ handling = <<>>
    /\ \A c \in Cs : rdPc[c] \notin {"sendLine", "sendFin"}

RECURSIVE Concat(_)
\* the bytes of the log events of a sequence, one after the other
Concat(events) ==
  IF events = <<>> THEN <<>> ELSE events[1].Log \o Concat(Tail(events))

\* C32: with container logging enabled, the log events of a container carry
\* every byte it wrote to its log stream, in order, and the last of them is
\* the finish event: output that ends without a newline arrives as a line
\* event before it.
C32_EveryByteDelivered ==
  (call.op = "logStreamContainer" /\ call.input.enabledLog) =>
    LET events == call.result
    IN /\ events # <<>>
       /\ events[Len(events)].IsFinished
       /\ \A k \in 1..(Len(events) - 1) : ~events[k].IsFinished
       /\ Concat(events) = call.input.stream

\* C33: a second RunWithExecutionHandler on the same Job gives its handler
\* executors with the same original command and arguments as the first one,
\* and the command-log setting of the Job is afterwards what the caller
\* configured.
C33_SecondInvocationSameExecutors ==
  call.op = "RunWithExecutionHandler twice" =>
    /\ Len(call.result.second) = Len(call.result.first)
    /\ \A k \in DOMAIN call.result.first :
         /\ call.result.second[k].command = call.result.first[k].command
         /\ call.result.second[k].args = call.result.first[k].args
    /\ call.result.disabled.commandLog = call.input.disabled.commandLog

\* the watch loop has received the event of the pod's terminal phase and
\* has returned on it
TerminalDelivered ==
  /\ watchPc = "done"
  /\ PodPhase \in Terminal
  /\ pod = Snapshot(term)
  /\ IF PodPhase = "Succeeded" THEN IsNil(watchRet) ELSE watchRet.fj # {}

\* every log stream that was opened has been read to its end
StreamsAtEOF ==
  \A c \in Cs : rdPc[c] # "idle" => (nread[c] = Lines(c) /\ FinSent(c) >= 1)

\* C34: once the terminal phase event has been delivered, every log stream
\* has reached its end and Run has returned (the context never cancelled),
\* no reader task is left blocked for ever on its error channel: a reader
\* at "blocked" has no step left.
C34_NoReaderLeftBlocked ==
  (Returned /\ ~ctxDone /\ TerminalDelivered /\ StreamsAtEOF) =>
    \A c \in Cs : rdPc[c] # "blocked"
====
